---- MODULE Spec2Model ----
(***************************************************************************)
(* A model of the A1111 bulk in-painting scripts Main.py, Deneme_1.py and  *)
(* Main_Resim.py: the random mask generator create_mask with its YOLO      *)
(* annotation, the serialisation of the annotation to out_<n>.txt, and the *)
(* generation loop of main around send_to_api.                             *)
(*                                                                         *)
(* Python floats are IEEE doubles.  A float that the scripts compute is    *)
(* always the correctly rounded quotient of two small integers, so it is   *)
(* kept as the pair [num, den] of that quotient; str() of it is computed   *)
(* digit for digit as CPython's repr does (shortest decimal string that    *)
(* reads back as the same double), with decimal digit sequences standing   *)
(* for the integers that exceed the machine word.                          *)
(***************************************************************************)
EXTENDS Integers, Sequences, FiniteSets, TLC

\* ------------------------------------------------------------------ bounds
MaxDim == 6        \* largest image width and height explored
NegDim == 2        \* create_mask is also applied to sizes down to -NegDim
MaxCount == 2      \* largest --count explored
MaxImgs == 2       \* most files in input_dir
MaxCtrls == 1      \* most files in control_dir

\* ------------------------------------------------- program constants
MIN_FRAC_PCT == 20     \* MIN_FRAC = 0.20, in hundredths
MAX_FRAC_PCT == 50     \* MAX_FRAC = 0.50, in hundredths
BLUR_RADIUS == 4       \* ImageFilter.GaussianBlur(4) of Main_Resim.py

Scripts == {"Main", "Deneme_1", "Main_Resim"}

\* ---------------------------------------------- decimal digit sequences
\* A natural number as the sequence of its decimal digits, least
\* significant first.

RECURSIVE BigNorm(_)
BigNorm(a) ==
    IF Len(a) > 1 /\ a[Len(a)] = 0 THEN BigNorm(SubSeq(a, 1, Len(a) - 1)) ELSE a

RECURSIVE BigMulFrom(_, _, _, _)
BigMulFrom(a, s, at, c) ==
    IF at > Len(a)
    THEN IF c = 0 THEN <<>> ELSE <<c % 10>> \o BigMulFrom(a, s, at, c \div 10)
    ELSE LET v == a[at] * s + c
         IN  <<v % 10>> \o BigMulFrom(a, s, at + 1, v \div 10)

\* a * s for a digit sequence a and a small natural s
BigMul(a, s) == BigNorm(BigMulFrom(a, s, 1, 0))

RECURSIVE BigAddFrom(_, _, _, _)
BigAddFrom(a, b, at, c) ==
    IF at > Len(a) /\ at > Len(b)
    THEN IF c = 0 THEN <<>> ELSE <<c>>
    ELSE LET v == (IF at <= Len(a) THEN a[at] ELSE 0)
                  + (IF at <= Len(b) THEN b[at] ELSE 0) + c
         IN  <<v % 10>> \o BigAddFrom(a, b, at + 1, v \div 10)

BigAdd(a, b) == BigNorm(BigAddFrom(a, b, 1, 0))

RECURSIVE BigCmpFrom(_, _, _)
BigCmpFrom(a, b, at) ==
    IF at = 0 THEN 0
    ELSE IF a[at] < b[at] THEN -1
    ELSE IF a[at] > b[at] THEN 1
    ELSE BigCmpFrom(a, b, at - 1)

\* -1, 0 or 1 as a < b, a = b or a > b
BigCmp(a, b) ==
    LET x == BigNorm(a)
        y == BigNorm(b)
    IN  IF Len(x) < Len(y) THEN -1
        ELSE IF Len(x) > Len(y) THEN 1
        ELSE BigCmpFrom(x, y, Len(x))

\* the sign of m * pw - n * qw for small integers m, n and digit sequences
\* pw, qw
CmpProd(m, pw, n, qw) ==
    IF m >= 0 /\ n >= 0 THEN BigCmp(BigMul(pw, m), BigMul(qw, n))
    ELSE IF m < 0 /\ n < 0 THEN BigCmp(BigMul(qw, -n), BigMul(pw, -m))
    ELSE IF m >= 0 THEN 1
    ELSE -1

\* ------------------------------------------------------ str() of a float
\* (p * 2^(52 + j)) mod q, by way of 2^52 = (2^13)^4
ModPow2(p, j, q) ==
    LET m13 == 8192 % q
        r1  == ((p % q) * m13) % q
        r2  == (r1 * m13) % q
        r3  == (r2 * m13) % q
        r4  == (r3 * m13) % q
    IN  (r4 * ((2 ^ j) % q)) % q

RECURSIVE BinExp(_, _, _)
\* the least j >= j0 with p * 2^j >= q * 2^j0
BinExp(p, q, j0) == IF p >= q THEN j0 ELSE BinExp(2 * p, q, j0 + 1)

RECURSIVE LeadZeros(_, _, _)
\* the number of zeros between the decimal point and the first digit of p/q
LeadZeros(p, q, z) == IF 10 * p >= q THEN z ELSE LeadZeros(10 * p, q, z + 1)

RECURSIVE FracDigits(_, _, _)
\* the first k fractional digits of r/q (most significant first) and the
\* remainder left after them
FracDigits(r, q, k) ==
    IF k = 0 THEN [ds |-> <<>>, r |-> r]
    ELSE LET rest == FracDigits((10 * r) % q, q, k - 1)
         IN  [ds |-> <<(10 * r) \div q>> \o rest.ds, r |-> rest.r]

RECURSIVE AddSmallAt(_, _, _)
\* digits ds (most significant first) plus the small integer c added at
\* position at
AddSmallAt(ds, at, c) ==
    IF c = 0 THEN ds
    ELSE IF at = 0 THEN <<c>> \o ds
    ELSE LET v == ds[at] + c
             d == v % 10
         IN  AddSmallAt([ds EXCEPT ![at] = d], at - 1, (v - d) \div 10)

RECURSIVE StripZeros(_)
StripZeros(ds) ==
    IF Len(ds) > 1 /\ ds[Len(ds)] = 0 THEN StripZeros(SubSeq(ds, 1, Len(ds) - 1))
    ELSE ds

DigitChar == <<"0", "1", "2", "3", "4", "5", "6", "7", "8", "9">>

DigitText(ds) == [at \in 1..Len(ds) |-> DigitChar[ds[at] + 1]]

\* The double nearest to p/q, 0 < p < q, is (p * 2^e + t) / (q * 2^e) with
\* e = 52 + j, j = BinExp(p, q, 0), and |t| <= q/2 (round half to even).
Dbl(p, q) ==
    LET j   == BinExp(p, q, 0)
        rem == ModPow2(p, j, q)
        odd == ModPow2(p, j, 2 * q) >= q      \* parity of floor(p * 2^e / q)
        up  == (2 * rem > q) \/ (2 * rem = q /\ odd)
    IN  [j |-> j,
         t |-> IF up THEN q - rem ELSE 0 - rem,
         mOdd |-> IF 2 * rem = q THEN FALSE ELSE IF up THEN ~odd ELSE odd]

\* 2^53 = 9007199254740992, least significant digit first
Two53 == <<2, 9, 9, 0, 4, 7, 4, 5, 2, 9, 9, 1, 7, 0, 0, 9>>

\* 10^k
Ten(k) == [at \in 1..(k + 1) |-> IF at = k + 1 THEN 1 ELSE 0]

RECURSIVE ShortestDigits(_, _, _, _, _)
\* The fractional digits of the shortest decimal, of n or more significant
\* digits, that lies in the rounding interval of the double x nearest to
\* p/q; among decimals of that length, the one nearest to x.  With k the
\* number of fractional digits, fd the first k digits of p/q and r their
\* remainder, the decimal (fd + c) / 10^k differs from x by
\* (u * 2^(e+1) - 2 * t * 10^k) / (2 * q * 2^e * 10^k), u = c * q - r.
ShortestDigits(p, q, x, z, n) ==
    LET k   == z + n
        fd  == FracDigits(p, q, k)
        two == BigMul(Two53, 2 ^ x.j)            \* 2^(e+1)
        ten == Ten(k)
        c   == CHOOSE cc \in -12..12 :
                  /\ CmpProd(2 * cc * q - 2 * fd.r + q, two, 4 * x.t, ten) >= 0
                  /\ CmpProd(2 * cc * q - 2 * fd.r - q, two, 4 * x.t, ten) < 0
        u   == c * q - fd.r
        hi  == CmpProd(u, two, q + 2 * x.t, ten)
        lo  == CmpProd(u, two, 2 * x.t - q, ten)
        inside == IF x.mOdd THEN hi < 0 /\ lo > 0 ELSE hi <= 0 /\ lo >= 0
    IN  IF inside \/ n >= 17
        THEN StripZeros(AddSmallAt(fd.ds, k, c))
        ELSE ShortestDigits(p, q, x, z, n + 1)

\* str(v) for the float v = p/q in [0, 1]: repr's fixed notation
float_repr(p, q) ==
    IF p = 0 THEN <<"0", ".", "0">>
    ELSE IF p = q THEN <<"1", ".", "0">>
    ELSE <<"0", ".">>
         \o DigitText(ShortestDigits(p, q, Dbl(p, q), LeadZeros(p, q, 0), 1))

\* The floats the scripts can produce for images up to MaxDim pixels, k/w
\* and k/(2w), each with its text, computed once.
ReprTable ==
    {<<pq, float_repr(pq[1], pq[2])>> :
        pq \in {f \in (0..(2 * MaxDim)) \X (1..(2 * MaxDim)) :
                   /\ f[1] <= f[2]
                   /\ (f[2] <= MaxDim \/ f[2] % 2 = 0)}}

\* str(v) cut to three decimals, as "%.3f" would give it
float_str_short(v) ==
    LET full == (CHOOSE e \in ReprTable : e[1] = <<v.num, v.den>>)[2]
    IN  SubSeq(full, 1, IF Len(full) < 5 THEN Len(full) ELSE 5)

\* str(v) of the float v = [num, den]
float_str(v) == (CHOOSE e \in ReprTable : e[1] = <<v.num, v.den>>)[2]

RECURSIVE int_digits(_)
int_digits(n) ==
    IF n < 10 THEN <<DigitChar[n + 1]>>
    ELSE int_digits(n \div 10) \o <<DigitChar[(n % 10) + 1]>>

\* str(n) of an int
int_str(n) == IF n < 0 THEN <<"-">> \o int_digits(0 - n) ELSE int_digits(n)

RECURSIVE join(_, _)
\* sep.join(parts)
join(parts, sep) ==
    IF parts = <<>> THEN <<>>
    ELSE IF Len(parts) = 1 THEN parts[1]
    ELSE parts[1] \o sep \o join(Tail(parts), sep)

\* " ".join(str(val) for val in yolo_box)
annotation_text(yolo) ==
    join(<<int_str(yolo[1]), float_str(yolo[2]), float_str(yolo[3]),
           float_str(yolo[4]), float_str(yolo[5])>>, <<" ">>)

\* ------------------------------------------------------------ create_mask
\* round(d * frac) in place of int(d * frac), halves upward
int_frac_round(d, pct) == (d * pct + 50) \div 100

\* int(d * frac) for frac = pct/100: truncation toward zero
int_frac(d, pct) ==
    IF d >= 0 THEN (d * pct) \div 100 ELSE 0 - (((0 - d) * pct) \div 100)

\* a draw from lo..hi+1, one past the inclusive upper end
randint_past(lo, hi, raw) ==
    [ok |-> lo <= hi,
     v  |-> IF lo <= hi THEN lo + (raw % (hi - lo + 2)) ELSE 0]

\* random.randint(lo, hi) when the generator's next output is raw: a value
\* of lo..hi, or ValueError (ok = FALSE) when the range is empty
randint(lo, hi, raw) ==
    [ok |-> lo <= hi,
     v  |-> IF lo <= hi THEN lo + (raw % (hi - lo + 1)) ELSE 0]

\* ImageDraw.rectangle([x0, y0, x1, y1], fill=255) on a zero canvas of
\* size (width, height): Pillow fills both corner points inclusively and
\* clips to the canvas.  The white pixels.
rectangle(width, height, x0, y0, x1, y1) ==
    {px \in (0..(width - 1)) \X (0..(height - 1)) :
        /\ x0 <= px[1] /\ px[1] <= x1
        /\ y0 <= px[2] /\ px[2] <= y1}

Raised(kind) == [exc |-> kind, mask |-> <<>>, yolo |-> <<>>, box |-> <<>>]

\* create_mask of the three scripts on an image of size (width, height),
\* r the four outputs of the random source that the call consumes
create_mask(which, width, height, r) ==
    LET bw    == randint(int_frac(width, MIN_FRAC_PCT),
                         int_frac(width, MAX_FRAC_PCT), r[1])
        bh    == randint(int_frac(height, MIN_FRAC_PCT),
                         int_frac(height, MAX_FRAC_PCT), r[2])
        box_w == bw.v
        box_h == bh.v
        rx    == randint(0, width - box_w, r[3])
        ry    == randint(0, height - box_h, r[4])
        x0    == rx.v
        y0    == ry.v
        x1    == x0 + box_w
        y1    == y0 + box_h
    IN  IF ~bw.ok \/ ~bh.ok \/ ~rx.ok \/ ~ry.ok THEN Raised("ValueError")
        ELSE IF width = 0 \/ height = 0 THEN Raised("ZeroDivisionError")
        ELSE [exc  |-> "none",
              mask |-> [size  |-> <<width, height>>,
                        white |-> rectangle(width, height, x0, y0, x1, y1),
                        blur  |-> IF which = "Main_Resim" THEN BLUR_RADIUS
                                  ELSE 0],
              yolo |-> <<0,
                         [num |-> x0 + x1, den |-> 2 * width],
                         [num |-> y0 + y1, den |-> 2 * height],
                         [num |-> box_w, den |-> width],
                         [num |-> box_h, den |-> height]>>,
              box  |-> <<x0, y0, x1, y1>>]

\* the outputs of the random source that one call may meet
Raws == [1..4 -> 0..MaxDim]

\* ------------------------------------------------------------------ state
VARIABLES
    script,        \* which of the three scripts runs
    cm_width,      \* create_mask alone: the size of the image passed in
    cm_height,
    cm_ret,        \*   what the call returned or raised
    cm_txt,        \*   the annotation text written from the returned record
    count,         \* main: args.count
    input_dir,     \*   os.listdir(args.input_dir): the file names, in order
    control_dir,   \*   os.listdir(args.control_dir)
    images,        \*   the image files kept from input_dir, as their sizes
    nctrls,        \*   len(control_images)
    nprompts,      \*   len(load_prompts(prompt_file))
    pc,            \*   where the run is
    i,             \*   the loop items consumed so far
    cur,           \*   the locals of the iteration under way
    calls,         \*   the requests posted so far, with their answers
    png,           \*   out_<n>.png: 0 when absent, else the call whose
                   \*   answer it holds
    txt,           \*   out_<n>.txt: its text, NoFile when absent
    cmp,           \*   the n with a cmp_<n>.png
    pngWrites,     \*   how often out_<n>.png was written in this run
    txtWrites,     \*   how often out_<n>.txt was written in this run
    exc            \*   the exception that ended the run, if any

cmVars == <<cm_width, cm_height, cm_ret, cm_txt>>
mainVars == <<count, input_dir, control_dir, images, nctrls, nprompts, pc, i,
              cur, calls, png, txt,
              cmp, pngWrites, txtWrites, exc>>
vars == <<script, cmVars, mainVars>>

NotCalled == Raised("pending")
NoFile == <<>>
NoLocals == [n |-> 0, img |-> 0, ctrl |-> 0, made |-> NotCalled]

\* ------------------------------------------- create_mask as a function
\* The inputs are drawn from the bounded sizes, the valid and the invalid.
CmIdle ==
    /\ cm_width = 0
    /\ cm_height = 0
    /\ cm_ret = NotCalled
    /\ cm_txt = NoFile

MainIdle ==
    /\ count = 0
    /\ input_dir = <<>>
    /\ control_dir = <<>>
    /\ images = <<>>
    /\ nctrls = 0
    /\ nprompts = 0
    /\ pc = "idle"
    /\ i = 0
    /\ cur = NoLocals
    /\ calls = <<>>
    /\ png = <<>>
    /\ txt = <<>>
    /\ cmp = {}
    /\ pngWrites = <<>>
    /\ txtWrites = <<>>
    /\ exc = "none"

InitMask ==
    /\ script \in Scripts
    /\ cm_width \in (0 - NegDim)..MaxDim
    /\ cm_height \in (0 - NegDim)..MaxDim
    /\ cm_ret = NotCalled
    /\ cm_txt = NoFile
    /\ MainIdle

CallCreateMask ==
    /\ cm_ret = NotCalled
    /\ \E r \in Raws : cm_ret' = create_mask(script, cm_width, cm_height, r)
    /\ UNCHANGED <<script, cm_width, cm_height, cm_txt, mainVars>>

\* main's write of the record to the annotation file
WriteAnnotation ==
    /\ cm_ret.exc = "none"
    /\ cm_txt = NoFile
    /\ cm_txt' = annotation_text(cm_ret.yolo)
    /\ UNCHANGED <<script, cm_width, cm_height, cm_ret, mainVars>>

NextMask == CallCreateMask \/ WriteAnnotation

SpecMask == InitMask /\ [][NextMask]_vars

\* ------------------------------------------------------------------ main
\* What the API may do with a request: answer with a status and a body, or
\* not answer at all (requests.post raises).  The statuses are 200, one
\* that is neither 200 nor an error (201; 202, 302 and 304 behave alike)
\* and one error status (500, for 400..599).  The bodies, one for each step
\* of the scripts' reading that can fail:
\*   "uri"            {"images": ["data:image/png;base64,<base64 of a PNG>"]}
\*   "plain"          {"images": ["<base64 of a PNG>"]}
\*   "not_json"       text that is not JSON
\*   "no_images"      a JSON object without the key "images"
\*   "empty_images"   {"images": []}
\*   "null_image"     {"images": [null]}
\*   "uri_not_base64" a data URI whose part after the comma has a number of
\*                    base64 characters that b64decode refuses
\*   "uri_not_image"  a data URI whose base64 does not decode to an image
BodyKinds ==
    {"uri", "plain", "not_json", "no_images", "empty_images", "null_image",
     "uri_not_base64", "uri_not_image"}
NO_RESPONSE == [status |-> 0, body |-> "none"]
Responses ==
    {[status |-> 200, body |-> b] : b \in BodyKinds}
        \cup {[status |-> 201, body |-> "uri"],
              [status |-> 500, body |-> "not_json"], NO_RESPONSE}

\* File names are sequences of code points.  The files a folder may hold:
\* in input_dir "a.png", "İ.JPG" (upper case, its first letter U+0130,
\* which lower() turns into two code points) and "notes.txt"; in
\* control_dir "c.jpeg" and "readme.txt".
FILE_A_PNG == <<97, 46, 112, 110, 103>>
FILE_I_JPG == <<304, 46, 74, 80, 71>>
FILE_NOTES_TXT == <<110, 111, 116, 101, 115, 46, 116, 120, 116>>
FILE_C_JPEG == <<99, 46, 106, 112, 101, 103>>
FILE_README_TXT == <<114, 101, 97, 100, 109, 101, 46, 116, 120, 116>>
InputFiles == {FILE_A_PNG, FILE_I_JPG, FILE_NOTES_TXT}
ControlFiles == {FILE_C_JPEG, FILE_README_TXT}

\* what os.listdir may return for a folder of at most maxlen of the files:
\* the names in any order, none twice
Listings(files, maxlen) ==
    {ls \in UNION {[1..len -> files] : len \in 0..maxlen} :
        \A a, b \in 1..Len(ls) : a # b => ls[a] # ls[b]}

\* Image.open(path).size of an input file: every image has one pixel, the
\* size with the fewest outcomes of create_mask (four)
image_size(nm) == <<1, 1>>

\* The simple lower-case mappings of the Unicode Character Database 14.0.0
\* (the one of CPython 3.11): <<first, last, step, delta>> maps every
\* step-th code point ch of first..last to ch + delta.
LOWER_RUNS ==
    {<<65, 90, 1, 32>>, <<192, 214, 1, 32>>, <<216, 222, 1, 32>>,
     <<256, 302, 2, 1>>, <<306, 310, 2, 1>>, <<313, 327, 2, 1>>,
     <<330, 374, 2, 1>>, <<376, 376, 1, -121>>, <<377, 381, 2, 1>>,
     <<385, 385, 1, 210>>, <<386, 388, 2, 1>>, <<390, 390, 1, 206>>,
     <<391, 391, 1, 1>>, <<393, 394, 1, 205>>, <<395, 395, 1, 1>>,
     <<398, 398, 1, 79>>, <<399, 399, 1, 202>>, <<400, 400, 1, 203>>,
     <<401, 401, 1, 1>>, <<403, 403, 1, 205>>, <<404, 404, 1, 207>>,
     <<406, 406, 1, 211>>, <<407, 407, 1, 209>>, <<408, 408, 1, 1>>,
     <<412, 412, 1, 211>>, <<413, 413, 1, 213>>, <<415, 415, 1, 214>>,
     <<416, 420, 2, 1>>, <<422, 422, 1, 218>>, <<423, 423, 1, 1>>,
     <<425, 425, 1, 218>>, <<428, 428, 1, 1>>, <<430, 430, 1, 218>>,
     <<431, 431, 1, 1>>, <<433, 434, 1, 217>>, <<435, 437, 2, 1>>,
     <<439, 439, 1, 219>>, <<440, 440, 1, 1>>, <<444, 444, 1, 1>>,
     <<452, 452, 1, 2>>, <<453, 453, 1, 1>>, <<455, 455, 1, 2>>,
     <<456, 456, 1, 1>>, <<458, 458, 1, 2>>, <<459, 475, 2, 1>>,
     <<478, 494, 2, 1>>, <<497, 497, 1, 2>>, <<498, 500, 2, 1>>,
     <<502, 502, 1, -97>>, <<503, 503, 1, -56>>, <<504, 542, 2, 1>>,
     <<544, 544, 1, -130>>, <<546, 562, 2, 1>>, <<570, 570, 1, 10795>>,
     <<571, 571, 1, 1>>, <<573, 573, 1, -163>>, <<574, 574, 1, 10792>>,
     <<577, 577, 1, 1>>, <<579, 579, 1, -195>>, <<580, 580, 1, 69>>,
     <<581, 581, 1, 71>>, <<582, 590, 2, 1>>, <<880, 882, 2, 1>>,
     <<886, 886, 1, 1>>, <<895, 895, 1, 116>>, <<902, 902, 1, 38>>,
     <<904, 906, 1, 37>>, <<908, 908, 1, 64>>, <<910, 911, 1, 63>>,
     <<913, 929, 1, 32>>, <<931, 939, 1, 32>>, <<975, 975, 1, 8>>,
     <<984, 1006, 2, 1>>, <<1012, 1012, 1, -60>>, <<1015, 1015, 1, 1>>,
     <<1017, 1017, 1, -7>>, <<1018, 1018, 1, 1>>, <<1021, 1023, 1, -130>>,
     <<1024, 1039, 1, 80>>, <<1040, 1071, 1, 32>>, <<1120, 1152, 2, 1>>,
     <<1162, 1214, 2, 1>>, <<1216, 1216, 1, 15>>, <<1217, 1229, 2, 1>>,
     <<1232, 1326, 2, 1>>, <<1329, 1366, 1, 48>>, <<4256, 4293, 1, 7264>>,
     <<4295, 4295, 1, 7264>>, <<4301, 4301, 1, 7264>>,
     <<5024, 5103, 1, 38864>>, <<5104, 5109, 1, 8>>, <<7312, 7354, 1, -3008>>,
     <<7357, 7359, 1, -3008>>, <<7680, 7828, 2, 1>>, <<7838, 7838, 1, -7615>>,
     <<7840, 7934, 2, 1>>, <<7944, 7951, 1, -8>>, <<7960, 7965, 1, -8>>,
     <<7976, 7983, 1, -8>>, <<7992, 7999, 1, -8>>, <<8008, 8013, 1, -8>>,
     <<8025, 8031, 2, -8>>, <<8040, 8047, 1, -8>>, <<8072, 8079, 1, -8>>,
     <<8088, 8095, 1, -8>>, <<8104, 8111, 1, -8>>, <<8120, 8121, 1, -8>>,
     <<8122, 8123, 1, -74>>, <<8124, 8124, 1, -9>>, <<8136, 8139, 1, -86>>,
     <<8140, 8140, 1, -9>>, <<8152, 8153, 1, -8>>, <<8154, 8155, 1, -100>>,
     <<8168, 8169, 1, -8>>, <<8170, 8171, 1, -112>>, <<8172, 8172, 1, -7>>,
     <<8184, 8185, 1, -128>>, <<8186, 8187, 1, -126>>, <<8188, 8188, 1, -9>>,
     <<8486, 8486, 1, -7517>>, <<8490, 8490, 1, -8383>>,
     <<8491, 8491, 1, -8262>>, <<8498, 8498, 1, 28>>, <<8544, 8559, 1, 16>>,
     <<8579, 8579, 1, 1>>, <<9398, 9423, 1, 26>>, <<11264, 11311, 1, 48>>,
     <<11360, 11360, 1, 1>>, <<11362, 11362, 1, -10743>>,
     <<11363, 11363, 1, -3814>>, <<11364, 11364, 1, -10727>>,
     <<11367, 11371, 2, 1>>, <<11373, 11373, 1, -10780>>,
     <<11374, 11374, 1, -10749>>, <<11375, 11375, 1, -10783>>,
     <<11376, 11376, 1, -10782>>, <<11378, 11378, 1, 1>>,
     <<11381, 11381, 1, 1>>, <<11390, 11391, 1, -10815>>,
     <<11392, 11490, 2, 1>>, <<11499, 11501, 2, 1>>, <<11506, 11506, 1, 1>>,
     <<42560, 42604, 2, 1>>, <<42624, 42650, 2, 1>>, <<42786, 42798, 2, 1>>,
     <<42802, 42862, 2, 1>>, <<42873, 42875, 2, 1>>,
     <<42877, 42877, 1, -35332>>, <<42878, 42886, 2, 1>>,
     <<42891, 42891, 1, 1>>, <<42893, 42893, 1, -42280>>,
     <<42896, 42898, 2, 1>>, <<42902, 42920, 2, 1>>,
     <<42922, 42922, 1, -42308>>, <<42923, 42923, 1, -42319>>,
     <<42924, 42924, 1, -42315>>, <<42925, 42925, 1, -42305>>,
     <<42926, 42926, 1, -42308>>, <<42928, 42928, 1, -42258>>,
     <<42929, 42929, 1, -42282>>, <<42930, 42930, 1, -42261>>,
     <<42931, 42931, 1, 928>>, <<42932, 42946, 2, 1>>,
     <<42948, 42948, 1, -48>>, <<42949, 42949, 1, -42307>>,
     <<42950, 42950, 1, -35384>>, <<42951, 42953, 2, 1>>,
     <<42960, 42960, 1, 1>>, <<42966, 42968, 2, 1>>, <<42997, 42997, 1, 1>>,
     <<65313, 65338, 1, 32>>, <<66560, 66599, 1, 40>>,
     <<66736, 66771, 1, 40>>, <<66928, 66938, 1, 39>>,
     <<66940, 66954, 1, 39>>, <<66956, 66962, 1, 39>>,
     <<66964, 66965, 1, 39>>, <<68736, 68786, 1, 64>>,
     <<71840, 71871, 1, 32>>, <<93760, 93791, 1, 32>>,
     <<125184, 125217, 1, 34>>}

\* The code points with the property Cased, as <<first, last>>.
CASED_RANGES ==
    {<<65, 90>>, <<97, 122>>, <<170, 170>>, <<181, 181>>, <<186, 186>>,
     <<192, 214>>, <<216, 246>>, <<248, 442>>, <<444, 447>>, <<452, 659>>,
     <<661, 696>>, <<704, 705>>, <<736, 740>>, <<837, 837>>, <<880, 883>>,
     <<886, 887>>, <<890, 893>>, <<895, 895>>, <<902, 902>>, <<904, 906>>,
     <<908, 908>>, <<910, 929>>, <<931, 1013>>, <<1015, 1153>>,
     <<1162, 1327>>, <<1329, 1366>>, <<1376, 1416>>, <<4256, 4293>>,
     <<4295, 4295>>, <<4301, 4301>>, <<4304, 4346>>, <<4349, 4351>>,
     <<5024, 5109>>, <<5112, 5117>>, <<7296, 7304>>, <<7312, 7354>>,
     <<7357, 7359>>, <<7424, 7615>>, <<7680, 7957>>, <<7960, 7965>>,
     <<7968, 8005>>, <<8008, 8013>>, <<8016, 8023>>, <<8025, 8025>>,
     <<8027, 8027>>, <<8029, 8029>>, <<8031, 8061>>, <<8064, 8116>>,
     <<8118, 8124>>, <<8126, 8126>>, <<8130, 8132>>, <<8134, 8140>>,
     <<8144, 8147>>, <<8150, 8155>>, <<8160, 8172>>, <<8178, 8180>>,
     <<8182, 8188>>, <<8305, 8305>>, <<8319, 8319>>, <<8336, 8348>>,
     <<8450, 8450>>, <<8455, 8455>>, <<8458, 8467>>, <<8469, 8469>>,
     <<8473, 8477>>, <<8484, 8484>>, <<8486, 8486>>, <<8488, 8488>>,
     <<8490, 8493>>, <<8495, 8500>>, <<8505, 8505>>, <<8508, 8511>>,
     <<8517, 8521>>, <<8526, 8526>>, <<8544, 8575>>, <<8579, 8580>>,
     <<9398, 9449>>, <<11264, 11492>>, <<11499, 11502>>, <<11506, 11507>>,
     <<11520, 11557>>, <<11559, 11559>>, <<11565, 11565>>, <<42560, 42605>>,
     <<42624, 42653>>, <<42786, 42887>>, <<42891, 42894>>, <<42896, 42954>>,
     <<42960, 42961>>, <<42963, 42963>>, <<42965, 42969>>, <<42997, 42998>>,
     <<43000, 43002>>, <<43824, 43866>>, <<43868, 43880>>, <<43888, 43967>>,
     <<64256, 64262>>, <<64275, 64279>>, <<65313, 65338>>, <<65345, 65370>>,
     <<66560, 66639>>, <<66736, 66771>>, <<66776, 66811>>, <<66928, 66938>>,
     <<66940, 66954>>, <<66956, 66962>>, <<66964, 66965>>, <<66967, 66977>>,
     <<66979, 66993>>, <<66995, 67001>>, <<67003, 67004>>, <<67456, 67456>>,
     <<67459, 67461>>, <<67463, 67504>>, <<67506, 67514>>, <<68736, 68786>>,
     <<68800, 68850>>, <<71840, 71903>>, <<93760, 93823>>, <<119808, 119892>>,
     <<119894, 119964>>, <<119966, 119967>>, <<119970, 119970>>,
     <<119973, 119974>>, <<119977, 119980>>, <<119982, 119993>>,
     <<119995, 119995>>, <<119997, 120003>>, <<120005, 120069>>,
     <<120071, 120074>>, <<120077, 120084>>, <<120086, 120092>>,
     <<120094, 120121>>, <<120123, 120126>>, <<120128, 120132>>,
     <<120134, 120134>>, <<120138, 120144>>, <<120146, 120485>>,
     <<120488, 120512>>, <<120514, 120538>>, <<120540, 120570>>,
     <<120572, 120596>>, <<120598, 120628>>, <<120630, 120654>>,
     <<120656, 120686>>, <<120688, 120712>>, <<120714, 120744>>,
     <<120746, 120770>>, <<120772, 120779>>, <<122624, 122633>>,
     <<122635, 122654>>, <<125184, 125251>>, <<127280, 127305>>,
     <<127312, 127337>>, <<127344, 127369>>}

\* The code points with the property Case_Ignorable, as <<first, last>>.
CASE_IGNORABLE_RANGES ==
    {<<39, 39>>, <<46, 46>>, <<58, 58>>, <<94, 94>>, <<96, 96>>, <<168, 168>>,
     <<173, 173>>, <<175, 175>>, <<180, 180>>, <<183, 184>>, <<688, 879>>,
     <<884, 885>>, <<890, 890>>, <<900, 901>>, <<903, 903>>, <<1155, 1161>>,
     <<1369, 1369>>, <<1375, 1375>>, <<1425, 1469>>, <<1471, 1471>>,
     <<1473, 1474>>, <<1476, 1477>>, <<1479, 1479>>, <<1524, 1524>>,
     <<1536, 1541>>, <<1552, 1562>>, <<1564, 1564>>, <<1600, 1600>>,
     <<1611, 1631>>, <<1648, 1648>>, <<1750, 1757>>, <<1759, 1768>>,
     <<1770, 1773>>, <<1807, 1807>>, <<1809, 1809>>, <<1840, 1866>>,
     <<1958, 1968>>, <<2027, 2037>>, <<2042, 2042>>, <<2045, 2045>>,
     <<2070, 2093>>, <<2137, 2139>>, <<2184, 2184>>, <<2192, 2193>>,
     <<2200, 2207>>, <<2249, 2306>>, <<2362, 2362>>, <<2364, 2364>>,
     <<2369, 2376>>, <<2381, 2381>>, <<2385, 2391>>, <<2402, 2403>>,
     <<2417, 2417>>, <<2433, 2433>>, <<2492, 2492>>, <<2497, 2500>>,
     <<2509, 2509>>, <<2530, 2531>>, <<2558, 2558>>, <<2561, 2562>>,
     <<2620, 2620>>, <<2625, 2626>>, <<2631, 2632>>, <<2635, 2637>>,
     <<2641, 2641>>, <<2672, 2673>>, <<2677, 2677>>, <<2689, 2690>>,
     <<2748, 2748>>, <<2753, 2757>>, <<2759, 2760>>, <<2765, 2765>>,
     <<2786, 2787>>, <<2810, 2815>>, <<2817, 2817>>, <<2876, 2876>>,
     <<2879, 2879>>, <<2881, 2884>>, <<2893, 2893>>, <<2901, 2902>>,
     <<2914, 2915>>, <<2946, 2946>>, <<3008, 3008>>, <<3021, 3021>>,
     <<3072, 3072>>, <<3076, 3076>>, <<3132, 3132>>, <<3134, 3136>>,
     <<3142, 3144>>, <<3146, 3149>>, <<3157, 3158>>, <<3170, 3171>>,
     <<3201, 3201>>, <<3260, 3260>>, <<3263, 3263>>, <<3270, 3270>>,
     <<3276, 3277>>, <<3298, 3299>>, <<3328, 3329>>, <<3387, 3388>>,
     <<3393, 3396>>, <<3405, 3405>>, <<3426, 3427>>, <<3457, 3457>>,
     <<3530, 3530>>, <<3538, 3540>>, <<3542, 3542>>, <<3633, 3633>>,
     <<3636, 3642>>, <<3654, 3662>>, <<3761, 3761>>, <<3764, 3772>>,
     <<3782, 3782>>, <<3784, 3789>>, <<3864, 3865>>, <<3893, 3893>>,
     <<3895, 3895>>, <<3897, 3897>>, <<3953, 3966>>, <<3968, 3972>>,
     <<3974, 3975>>, <<3981, 3991>>, <<3993, 4028>>, <<4038, 4038>>,
     <<4141, 4144>>, <<4146, 4151>>, <<4153, 4154>>, <<4157, 4158>>,
     <<4184, 4185>>, <<4190, 4192>>, <<4209, 4212>>, <<4226, 4226>>,
     <<4229, 4230>>, <<4237, 4237>>, <<4253, 4253>>, <<4348, 4348>>,
     <<4957, 4959>>, <<5906, 5908>>, <<5938, 5939>>, <<5970, 5971>>,
     <<6002, 6003>>, <<6068, 6069>>, <<6071, 6077>>, <<6086, 6086>>,
     <<6089, 6099>>, <<6103, 6103>>, <<6109, 6109>>, <<6155, 6159>>,
     <<6211, 6211>>, <<6277, 6278>>, <<6313, 6313>>, <<6432, 6434>>,
     <<6439, 6440>>, <<6450, 6450>>, <<6457, 6459>>, <<6679, 6680>>,
     <<6683, 6683>>, <<6742, 6742>>, <<6744, 6750>>, <<6752, 6752>>,
     <<6754, 6754>>, <<6757, 6764>>, <<6771, 6780>>, <<6783, 6783>>,
     <<6823, 6823>>, <<6832, 6862>>, <<6912, 6915>>, <<6964, 6964>>,
     <<6966, 6970>>, <<6972, 6972>>, <<6978, 6978>>, <<7019, 7027>>,
     <<7040, 7041>>, <<7074, 7077>>, <<7080, 7081>>, <<7083, 7085>>,
     <<7142, 7142>>, <<7144, 7145>>, <<7149, 7149>>, <<7151, 7153>>,
     <<7212, 7219>>, <<7222, 7223>>, <<7288, 7293>>, <<7376, 7378>>,
     <<7380, 7392>>, <<7394, 7400>>, <<7405, 7405>>, <<7412, 7412>>,
     <<7416, 7417>>, <<7468, 7530>>, <<7544, 7544>>, <<7579, 7679>>,
     <<8125, 8125>>, <<8127, 8129>>, <<8141, 8143>>, <<8157, 8159>>,
     <<8173, 8175>>, <<8189, 8190>>, <<8203, 8207>>, <<8216, 8217>>,
     <<8228, 8228>>, <<8231, 8231>>, <<8234, 8238>>, <<8288, 8292>>,
     <<8294, 8303>>, <<8305, 8305>>, <<8319, 8319>>, <<8336, 8348>>,
     <<8400, 8432>>, <<11388, 11389>>, <<11503, 11505>>, <<11631, 11631>>,
     <<11647, 11647>>, <<11744, 11775>>, <<11823, 11823>>, <<12293, 12293>>,
     <<12330, 12333>>, <<12337, 12341>>, <<12347, 12347>>, <<12441, 12446>>,
     <<12540, 12542>>, <<40981, 40981>>, <<42232, 42237>>, <<42508, 42508>>,
     <<42607, 42610>>, <<42612, 42621>>, <<42623, 42623>>, <<42652, 42655>>,
     <<42736, 42737>>, <<42752, 42785>>, <<42864, 42864>>, <<42888, 42890>>,
     <<42994, 42996>>, <<43000, 43001>>, <<43010, 43010>>, <<43014, 43014>>,
     <<43019, 43019>>, <<43045, 43046>>, <<43052, 43052>>, <<43204, 43205>>,
     <<43232, 43249>>, <<43263, 43263>>, <<43302, 43309>>, <<43335, 43345>>,
     <<43392, 43394>>, <<43443, 43443>>, <<43446, 43449>>, <<43452, 43453>>,
     <<43471, 43471>>, <<43493, 43494>>, <<43561, 43566>>, <<43569, 43570>>,
     <<43573, 43574>>, <<43587, 43587>>, <<43596, 43596>>, <<43632, 43632>>,
     <<43644, 43644>>, <<43696, 43696>>, <<43698, 43700>>, <<43703, 43704>>,
     <<43710, 43711>>, <<43713, 43713>>, <<43741, 43741>>, <<43756, 43757>>,
     <<43763, 43764>>, <<43766, 43766>>, <<43867, 43871>>, <<43881, 43883>>,
     <<44005, 44005>>, <<44008, 44008>>, <<44013, 44013>>, <<64286, 64286>>,
     <<64434, 64450>>, <<65024, 65039>>, <<65043, 65043>>, <<65056, 65071>>,
     <<65106, 65106>>, <<65109, 65109>>, <<65279, 65279>>, <<65287, 65287>>,
     <<65294, 65294>>, <<65306, 65306>>, <<65342, 65342>>, <<65344, 65344>>,
     <<65392, 65392>>, <<65438, 65439>>, <<65507, 65507>>, <<65529, 65531>>,
     <<66045, 66045>>, <<66272, 66272>>, <<66422, 66426>>, <<67456, 67461>>,
     <<67463, 67504>>, <<67506, 67514>>, <<68097, 68099>>, <<68101, 68102>>,
     <<68108, 68111>>, <<68152, 68154>>, <<68159, 68159>>, <<68325, 68326>>,
     <<68900, 68903>>, <<69291, 69292>>, <<69446, 69456>>, <<69506, 69509>>,
     <<69633, 69633>>, <<69688, 69702>>, <<69744, 69744>>, <<69747, 69748>>,
     <<69759, 69761>>, <<69811, 69814>>, <<69817, 69818>>, <<69821, 69821>>,
     <<69826, 69826>>, <<69837, 69837>>, <<69888, 69890>>, <<69927, 69931>>,
     <<69933, 69940>>, <<70003, 70003>>, <<70016, 70017>>, <<70070, 70078>>,
     <<70089, 70092>>, <<70095, 70095>>, <<70191, 70193>>, <<70196, 70196>>,
     <<70198, 70199>>, <<70206, 70206>>, <<70367, 70367>>, <<70371, 70378>>,
     <<70400, 70401>>, <<70459, 70460>>, <<70464, 70464>>, <<70502, 70508>>,
     <<70512, 70516>>, <<70712, 70719>>, <<70722, 70724>>, <<70726, 70726>>,
     <<70750, 70750>>, <<70835, 70840>>, <<70842, 70842>>, <<70847, 70848>>,
     <<70850, 70851>>, <<71090, 71093>>, <<71100, 71101>>, <<71103, 71104>>,
     <<71132, 71133>>, <<71219, 71226>>, <<71229, 71229>>, <<71231, 71232>>,
     <<71339, 71339>>, <<71341, 71341>>, <<71344, 71349>>, <<71351, 71351>>,
     <<71453, 71455>>, <<71458, 71461>>, <<71463, 71467>>, <<71727, 71735>>,
     <<71737, 71738>>, <<71995, 71996>>, <<71998, 71998>>, <<72003, 72003>>,
     <<72148, 72151>>, <<72154, 72155>>, <<72160, 72160>>, <<72193, 72202>>,
     <<72243, 72248>>, <<72251, 72254>>, <<72263, 72263>>, <<72273, 72278>>,
     <<72281, 72283>>, <<72330, 72342>>, <<72344, 72345>>, <<72752, 72758>>,
     <<72760, 72765>>, <<72767, 72767>>, <<72850, 72871>>, <<72874, 72880>>,
     <<72882, 72883>>, <<72885, 72886>>, <<73009, 73014>>, <<73018, 73018>>,
     <<73020, 73021>>, <<73023, 73029>>, <<73031, 73031>>, <<73104, 73105>>,
     <<73109, 73109>>, <<73111, 73111>>, <<73459, 73460>>, <<78896, 78904>>,
     <<92912, 92916>>, <<92976, 92982>>, <<92992, 92995>>, <<94031, 94031>>,
     <<94095, 94111>>, <<94176, 94177>>, <<94179, 94180>>, <<110576, 110579>>,
     <<110581, 110587>>, <<110589, 110590>>, <<113821, 113822>>,
     <<113824, 113827>>, <<118528, 118573>>, <<118576, 118598>>,
     <<119143, 119145>>, <<119155, 119170>>, <<119173, 119179>>,
     <<119210, 119213>>, <<119362, 119364>>, <<121344, 121398>>,
     <<121403, 121452>>, <<121461, 121461>>, <<121476, 121476>>,
     <<121499, 121503>>, <<121505, 121519>>, <<122880, 122886>>,
     <<122888, 122904>>, <<122907, 122913>>, <<122915, 122916>>,
     <<122918, 122922>>, <<123184, 123197>>, <<123566, 123566>>,
     <<123628, 123631>>, <<125136, 125142>>, <<125252, 125259>>,
     <<127995, 127999>>, <<917505, 917505>>, <<917536, 917631>>,
     <<917760, 917999>>}

in_ranges(ch, ranges) == \E rg \in ranges : rg[1] <= ch /\ ch <= rg[2]
is_cased(ch) == in_ranges(ch, CASED_RANGES)
is_case_ignorable(ch) == in_ranges(ch, CASE_IGNORABLE_RANGES)

\* the lower case of one code point, as the code points it becomes: U+0130
\* becomes two, a code point of LOWER_RUNS moves by its delta, every other
\* code point stays
lower_char(ch) ==
    IF ch = 304 THEN <<105, 775>>
    ELSE IF \E rn \in LOWER_RUNS :
               rn[1] <= ch /\ ch <= rn[2] /\ (ch - rn[1]) % rn[3] = 0
    THEN LET rn == CHOOSE rn \in LOWER_RUNS :
                      rn[1] <= ch /\ ch <= rn[2] /\ (ch - rn[1]) % rn[3] = 0
         IN  <<ch + rn[4]>>
    ELSE <<ch>>

\* the capital sigma at place k of nm: the final form U+03C2 when the
\* nearest code point before it that is not case-ignorable is cased and
\* the nearest such code point after it, if any, is not; U+03C3 otherwise
handle_capital_sigma(nm, k) ==
    LET before == {j \in 1..(k - 1) : ~is_case_ignorable(nm[j])}
        after  == {j \in (k + 1)..Len(nm) : ~is_case_ignorable(nm[j])}
        prev   == CHOOSE j \in before : \A m \in before : m <= j
        next   == CHOOSE j \in after : \A m \in after : j <= m
    IN  IF /\ before # {} /\ is_cased(nm[prev])
           /\ (after = {} \/ ~is_cased(nm[next]))
        THEN 962 ELSE 963

\* str.lower()
RECURSIVE lower_from(_, _)
lower_from(nm, k) ==
    IF k > Len(nm) THEN <<>>
    ELSE (IF nm[k] = 931 THEN <<handle_capital_sigma(nm, k)>>
          ELSE lower_char(nm[k])) \o lower_from(nm, k + 1)
lower(nm) == lower_from(nm, 1)

\* str.endswith(suffix), and with a tuple of suffixes
endswith(nm, sfx) ==
    /\ Len(nm) >= Len(sfx)
    /\ SubSeq(nm, Len(nm) - Len(sfx) + 1, Len(nm)) = sfx
\* ('png', 'jpg', 'jpeg')
IMAGE_SUFFIXES == {<<112, 110, 103>>, <<106, 112, 103>>, <<106, 112, 101, 103>>}
endswith_any(nm, sfxs) == \E sfx \in sfxs : endswith(nm, sfx)

\* img.lower().endswith(('png', 'jpg', 'jpeg'))
is_image(nm) == endswith_any(lower(nm), IMAGE_SUFFIXES)

\* [f for f in os.listdir(folder) if f.lower().endswith(...)]
image_files(listing) == SelectSeq(listing, is_image)

\* the outputs of the random source that one call of create_mask inside a
\* run may meet: each of the four draws on its own, over enough values to
\* reach every point of its range on the images above
MaxSide ==
    CHOOSE m \in 0..MaxDim :
        /\ \A f \in InputFiles : image_size(f)[1] <= m /\ image_size(f)[2] <= m
        /\ \E f \in InputFiles : image_size(f)[1] = m \/ image_size(f)[2] = m
RunRaws == [1..4 -> 0..MaxSide]

\* response.raise_for_status(): HTTPError for the statuses 400..599
raise_for_status(status) == 400 <= status /\ status <= 599

\* The reading of the body, step by step: response.json(), ["images"], [0],
\* the cut at the comma, base64.b64decode, Image.open.  An image, or the
\* exception raised on the way.  Main.py and Deneme_1.py test for the comma
\* with "in", Main_Resim.py takes .split(",", 1)[1] untested.
decode_body(which, body) ==
    IF body = "not_json" THEN [img |-> FALSE, exc |-> "JSONDecodeError"]
    ELSE IF body = "no_images" THEN [img |-> FALSE, exc |-> "KeyError"]
    ELSE IF body = "empty_images" THEN [img |-> FALSE, exc |-> "IndexError"]
    ELSE IF body = "null_image"
    THEN [img |-> FALSE,
          exc |-> IF which = "Main_Resim" THEN "AttributeError"
                  ELSE "TypeError"]
    ELSE IF which = "Main_Resim" /\ body = "plain"
    THEN [img |-> FALSE, exc |-> "IndexError"]
    ELSE IF body = "uri_not_base64"
    THEN [img |-> FALSE, exc |-> "binascii.Error"]
    ELSE IF body = "uri_not_image"
    THEN [img |-> FALSE, exc |-> "UnidentifiedImageError"]
    ELSE [img |-> TRUE, exc |-> "none"]

\* send_to_api with raise_for_status() in Main.py as well
send_to_api_raising(which, resp) ==
    IF resp = NO_RESPONSE THEN [img |-> FALSE, exc |-> "ConnectionError"]
    ELSE IF raise_for_status(resp.status)
    THEN [img |-> FALSE, exc |-> "HTTPError"]
    ELSE decode_body(which, resp.body)

\* send_to_api: an image, None, or the exception it lets through.  Main.py
\* returns None for every status but 200; the other two raise for an error
\* status and read the body of every other answer.
send_to_api(which, resp) ==
    IF resp = NO_RESPONSE THEN [img |-> FALSE, exc |-> "ConnectionError"]
    ELSE IF which = "Main"
    THEN IF resp.status = 200 THEN decode_body(which, resp.body)
         ELSE [img |-> FALSE, exc |-> "none"]
    ELSE IF raise_for_status(resp.status)
    THEN [img |-> FALSE, exc |-> "HTTPError"]
    ELSE decode_body(which, resp.body)

\* the item of itertools.cycle(images) at 0-based position k, as its
\* 1-based place in the listing
cycle_item(k, len) == (k % len) + 1

\* the index enumerate gives the item at 0-based position k: Main.py counts
\* from 0, the other two from 1
enumerate_index(which, k) == IF which = "Main" THEN k ELSE k + 1

\* the <n> of out_<n>.png and out_<n>.txt at enumerate index idx: Main.py
\* names them by i + 1, the other two by i
out_index(which, idx) == IF which = "Main" THEN idx + 1 ELSE idx

\* len(prompts): Deneme_1.py falls back to ["fire"]
prompts_len(which, loaded) ==
    IF which = "Deneme_1" /\ loaded = 0 THEN 1 ELSE loaded

Init ==
    /\ script \in Scripts
    /\ CmIdle
    /\ count \in (0 - 1)..MaxCount
    /\ input_dir \in Listings(InputFiles, MaxImgs)
    /\ control_dir \in Listings(ControlFiles, MaxCtrls)
    /\ images = <<>>
    /\ nctrls = 0
    /\ nprompts \in {0, 1}
    /\ pc = "start"
    /\ i = 0
    /\ cur = NoLocals
    /\ calls = <<>>
    /\ png = [n \in 1..MaxCount |-> 0]
    /\ txt = [n \in 1..MaxCount |-> NoFile]
    /\ cmp = {}
    /\ pngWrites = [n \in 1..MaxCount |-> 0]
    /\ txtWrites = [n \in 1..MaxCount |-> 0]
    /\ exc = "none"

Crash(kind) == pc' = "crashed" /\ exc' = kind

\* Start with the test of the control listing left out: only an input
\* folder without images stops the run
StartInputOnly ==
    /\ pc = "start"
    /\ images' = [k \in 1..Len(image_files(input_dir)) |->
                      image_size(image_files(input_dir)[k])]
    /\ nctrls' = Len(image_files(control_dir))
    /\ IF Len(image_files(input_dir)) = 0
       THEN IF script = "Deneme_1" THEN Crash("SystemExit")
            ELSE pc' = "returned" /\ UNCHANGED exc
       ELSE pc' = "loop" /\ UNCHANGED exc
    /\ UNCHANGED <<script, cmVars, count, input_dir, control_dir,
                   nprompts, i, cur, calls, png, txt, cmp, pngWrites,
                   txtWrites>>

\* the listing of input_dir and control_dir and the checks on them: Main.py
\* lists and tests the input folder first and returns before it lists the
\* control folder; the other two list both and test them together, where
\* Deneme_1.py raises SystemExit and Main_Resim.py returns
Start ==
    /\ pc = "start"
    /\ images' = [k \in 1..Len(image_files(input_dir)) |->
                      image_size(image_files(input_dir)[k])]
    /\ nctrls' = IF script = "Main" /\ Len(image_files(input_dir)) = 0
                 THEN 0
                 ELSE Len(image_files(control_dir))
    /\ IF Len(image_files(input_dir)) = 0 \/ Len(image_files(control_dir)) = 0
       THEN IF script = "Deneme_1" THEN Crash("SystemExit")
            ELSE pc' = "returned" /\ UNCHANGED exc
       ELSE pc' = "loop" /\ UNCHANGED exc
    /\ UNCHANGED <<script, cmVars, count, input_dir, control_dir,
                   nprompts, i, cur, calls, png, txt, cmp, pngWrites,
                   txtWrites>>

\* itertools.islice(..., args.count) with a negative count
LoopRaise ==
    /\ pc = "loop"
    /\ count < 0
    /\ Crash("ValueError")
    /\ UNCHANGED <<script, cmVars, count, input_dir, control_dir,
                   images, nctrls, nprompts, i, cur,
                   calls, png, txt, cmp, pngWrites, txtWrites>>

\* the for statement finds the slice exhausted
LoopExit ==
    /\ pc = "loop"
    /\ count >= 0
    /\ i >= count
    /\ pc' = "done"
    /\ UNCHANGED <<script, cmVars, count, input_dir, control_dir,
                   images, nctrls, nprompts, i, cur,
                   calls, png, txt, cmp, pngWrites, txtWrites, exc>>

\* the loop body up to the call of send_to_api: the next image of the
\* cycle, random.choice(prompts), create_mask, random.choice(control_images)
Iterate ==
    /\ pc = "loop"
    /\ count >= 0
    /\ i < count
    /\ IF prompts_len(script, nprompts) = 0
       THEN Crash("IndexError") /\ UNCHANGED cur
       ELSE /\ \E r \in RunRaws, c \in 1..nctrls :
                  LET img == cycle_item(i, Len(images))
                  IN  cur' = [n    |-> out_index(script,
                                                 enumerate_index(script, i)),
                              img  |-> img,
                              ctrl |-> IF script = "Deneme_1" THEN 0 ELSE c,
                              made |-> create_mask(script, images[img][1],
                                                   images[img][2], r)]
            /\ pc' = "post"
            /\ UNCHANGED exc
    /\ UNCHANGED <<script, cmVars, count, input_dir, control_dir,
                   images, nctrls, nprompts, i,
                   calls, png, txt, cmp, pngWrites, txtWrites>>

\* Post without main's "if output_img" guard on the annotation: a None
\* result skips the image but still writes the record
PostUnguarded ==
    /\ pc = "post"
    /\ \E resp \in Responses :
          LET got == send_to_api(script, resp)
          IN  /\ calls' = Append(calls, [n    |-> cur.n,
                                         img  |-> cur.img,
                                         ctrl |-> cur.ctrl,
                                         mask |-> cur.made.mask,
                                         yolo |-> cur.made.yolo,
                                         resp |-> resp])
              /\ IF got.exc # "none"
                 THEN Crash(got.exc)
                 ELSE IF got.img
                 THEN pc' = "save_png" /\ UNCHANGED exc
                 ELSE pc' = "save_txt" /\ UNCHANGED exc
    /\ UNCHANGED <<script, cmVars, count, input_dir, control_dir,
                   images, nctrls, nprompts,
                   i, cur, png, txt, cmp, pngWrites, txtWrites>>

\* send_to_api and what main does with its result
Post ==
    /\ pc = "post"
    /\ \E resp \in Responses :
          LET got == send_to_api(script, resp)
          IN  /\ calls' = Append(calls, [n    |-> cur.n,
                                         img  |-> cur.img,
                                         ctrl |-> cur.ctrl,
                                         mask |-> cur.made.mask,
                                         yolo |-> cur.made.yolo,
                                         resp |-> resp])
              /\ IF got.exc # "none"
                 THEN Crash(got.exc) /\ UNCHANGED i
                 ELSE IF got.img
                 THEN pc' = "save_png" /\ UNCHANGED <<i, exc>>
                 ELSE pc' = "loop" /\ i' = i + 1 /\ UNCHANGED exc
    /\ UNCHANGED <<script, cmVars, count, input_dir, control_dir,
                   images, nctrls, nprompts, cur,
                   png, txt, cmp, pngWrites, txtWrites>>

\* output_img.save(out_<n>.png)
SavePng ==
    /\ pc = "save_png"
    /\ png' = [png EXCEPT ![cur.n] = Len(calls)]
    /\ pngWrites' = [pngWrites EXCEPT ![cur.n] = @ + 1]
    /\ pc' = IF script = "Main_Resim" THEN "save_cmp" ELSE "save_txt"
    /\ UNCHANGED <<script, cmVars, count, input_dir, control_dir,
                   images, nctrls, nprompts, i, cur,
                   calls, txt, cmp, txtWrites, exc>>

\* save_side_by_side(init_img, out_img, cmp_<n>.png) of Main_Resim.py
SaveCmp ==
    /\ pc = "save_cmp"
    /\ cmp' = cmp \cup {cur.n}
    /\ pc' = "save_txt"
    /\ UNCHANGED <<script, cmVars, count, input_dir, control_dir,
                   images, nctrls, nprompts, i, cur,
                   calls, png, txt, pngWrites, txtWrites, exc>>

\* the write of out_<n>.txt, which ends the loop body
SaveTxt ==
    /\ pc = "save_txt"
    /\ txt' = [txt EXCEPT ![cur.n] = annotation_text(cur.made.yolo)]
    /\ txtWrites' = [txtWrites EXCEPT ![cur.n] = @ + 1]
    /\ pc' = "loop"
    /\ i' = i + 1
    /\ UNCHANGED <<script, cmVars, count, input_dir, control_dir,
                   images, nctrls, nprompts, cur,
                   calls, png, cmp, pngWrites, exc>>

Next ==
    \/ Start
    \/ LoopRaise
    \/ LoopExit
    \/ Iterate
    \/ Post
    \/ SavePng
    \/ SaveCmp
    \/ SaveTxt

Spec == Init /\ [][Next]_vars

\* ------------------------------------------------------ reading it back
RECURSIVE split(_, _)
\* text.split(sep) for a one-character sep
split(text, sep) ==
    IF \A k \in 1..Len(text) : text[k] # sep THEN <<text>>
    ELSE LET at == CHOOSE k \in 1..Len(text) :
                      text[k] = sep /\ \A m \in 1..(k - 1) : text[m] # sep
         IN  <<SubSeq(text, 1, at - 1)>>
             \o split(SubSeq(text, at + 1, Len(text)), sep)

DigitOf(ch) == (CHOOSE d \in 1..10 : DigitChar[d] = ch) - 1

IsDigits(field) ==
    /\ Len(field) >= 1
    /\ \A k \in 1..Len(field) : \E d \in 1..10 : field[k] = DigitChar[d]

\* a field of the form digits "." digits
IsDecimal(field) ==
    \E at \in 2..(Len(field) - 1) :
        /\ field[at] = "."
        /\ IsDigits(SubSeq(field, 1, at - 1))
        /\ IsDigits(SubSeq(field, at + 1, Len(field)))

\* The value of a decimal field as D / 10^k: D the digit sequence (least
\* significant first) of its digits with the point removed, k the number
\* of digits after the point.
parse_decimal(field) ==
    LET at == CHOOSE k \in 1..Len(field) : field[k] = "."
        ds == SubSeq(field, 1, at - 1) \o SubSeq(field, at + 1, Len(field))
    IN  [D |-> [m \in 1..Len(ds) |-> DigitOf(ds[Len(ds) + 1 - m])],
         k |-> Len(field) - at]

\* a * 10^k
BigShift(a, k) == [m \in 1..k |-> 0] \o a

\* | v * scale - target / 2 | <= 10^-12 for the decimal v = D / 10^k, that
\* is | 2 * scale * D - target * 10^k | * 10^12 <= 2 * 10^k
BackWithinTol(v, scale, target) ==
    LET back  == BigShift(BigMul(v.D, 2 * scale), 12)
        want  == BigShift(BigMul(Ten(v.k), target), 12)
        slack == BigMul(Ten(v.k), 2)
    IN  /\ BigCmp(back, BigAdd(want, slack)) <= 0
        /\ BigCmp(want, BigAdd(back, slack)) <= 0

\* ---------------------------------------------------------------- claims
ValidSize == cm_width >= 1 /\ cm_height >= 1
Returned == cm_ret.exc = "none"

\* C1 (as claimed): for every valid size and every outcome of the draws the
\* returned pixel box satisfies 0 <= x0 < x1 <= width and
\* 0 <= y0 < y1 <= height, so it is never empty, also on very small images.
C1_BoxInsideNonEmpty ==
    (ValidSize /\ Returned) =>
        /\ 0 <= cm_ret.box[1] /\ cm_ret.box[1] < cm_ret.box[3]
        /\ cm_ret.box[3] <= cm_width
        /\ 0 <= cm_ret.box[2] /\ cm_ret.box[2] < cm_ret.box[4]
        /\ cm_ret.box[4] <= cm_height

\* C2: for every valid size and every outcome of the draws, box_w = x1 - x0
\* lies in [floor(width * MIN_FRAC), floor(width * MAX_FRAC)] and box_h in
\* the same range of height (so each is within a pixel of the fractions),
\* the box ends inside the frame, and for 640 x 480 the ranges are
\* [128, 320] and [96, 240].
C2_BoxSizeInRange ==
    /\ int_frac(640, MIN_FRAC_PCT) = 128 /\ int_frac(640, MAX_FRAC_PCT) = 320
    /\ int_frac(480, MIN_FRAC_PCT) = 96 /\ int_frac(480, MAX_FRAC_PCT) = 240
    /\ (ValidSize /\ Returned) =>
        LET box_w == cm_ret.box[3] - cm_ret.box[1]
            box_h == cm_ret.box[4] - cm_ret.box[2]
        IN  /\ 100 * (box_w + 1) > MIN_FRAC_PCT * cm_width
            /\ 100 * box_w <= MAX_FRAC_PCT * cm_width
            /\ 100 * (box_h + 1) > MIN_FRAC_PCT * cm_height
            /\ 100 * box_h <= MAX_FRAC_PCT * cm_height
            /\ cm_ret.box[1] + box_w <= cm_width
            /\ cm_ret.box[2] + box_h <= cm_height

\* C2 witness: a call that drew the widest box allowed and, independently,
\* the lowest one allowed
C2_Witness ==
    /\ ValidSize /\ Returned
    /\ cm_width = MaxDim /\ cm_height = MaxDim - 1
    /\ 100 * (cm_ret.box[3] - cm_ret.box[1] + 1) > MAX_FRAC_PCT * cm_width
    /\ 100 * (cm_ret.box[4] - cm_ret.box[2]) <= MIN_FRAC_PCT * cm_height

\* C3 (as claimed): in the unblurred mask a pixel (x, y) is 255 exactly when
\* x0 <= x < x1 and y0 <= y < y1, so the white pixels number box_w * box_h.
C3_MaskHalfOpen ==
    (ValidSize /\ Returned /\ cm_ret.mask.blur = 0) =>
        /\ cm_ret.mask.white =
              {px \in (0..(cm_width - 1)) \X (0..(cm_height - 1)) :
                  /\ cm_ret.box[1] <= px[1] /\ px[1] < cm_ret.box[3]
                  /\ cm_ret.box[2] <= px[2] /\ px[2] < cm_ret.box[4]}
        /\ Cardinality(cm_ret.mask.white) =
              (cm_ret.box[3] - cm_ret.box[1]) * (cm_ret.box[4] - cm_ret.box[2])

\* C4: for every valid size the returned record is (0, cx, cy, wn, hn) with
\* cx = ((x0 + x1) / 2) / width, cy = ((y0 + y1) / 2) / height,
\* wn = box_w / width, hn = box_h / height, each of the four in [0, 1].
\* (A double is in [0, 1] exactly when the quotient it rounds is.)
C4_RecordNormalised ==
    (ValidSize /\ Returned) =>
        LET y == cm_ret.yolo
            b == cm_ret.box
        IN  /\ Len(y) = 5
            /\ y[1] = 0
            /\ y[2].num * 2 * cm_width = (b[1] + b[3]) * y[2].den
            /\ y[3].num * 2 * cm_height = (b[2] + b[4]) * y[3].den
            /\ y[4].num * cm_width = (b[3] - b[1]) * y[4].den
            /\ y[5].num * cm_height = (b[4] - b[2]) * y[5].den
            /\ \A k \in 2..5 :
                  y[k].den > 0 /\ 0 <= y[k].num /\ y[k].num <= y[k].den

\* C4 witness: a returned box that touches the right and the bottom edge
C4_Witness ==
    /\ ValidSize /\ Returned
    /\ cm_ret.box[3] = cm_width /\ cm_ret.box[4] = cm_height
    /\ cm_ret.box[1] < cm_ret.box[3]

\* C5: the annotation text is five space-separated numeric fields, and the
\* parsed centre and extent fields times (width, height) give back the
\* centre ((x0 + x1) / 2, (y0 + y1) / 2) and the extents (x1 - x0, y1 - y0)
\* of the box the same call returned, to within 10^-12 pixel.
C5_RoundTrip ==
    cm_txt # NoFile =>
        LET f == split(cm_txt, " ")
            b == cm_ret.box
        IN  /\ Len(f) = 5
            /\ IsDigits(f[1])
            /\ \A k \in 2..5 : IsDecimal(f[k])
            /\ BackWithinTol(parse_decimal(f[2]), cm_width, b[1] + b[3])
            /\ BackWithinTol(parse_decimal(f[3]), cm_height, b[2] + b[4])
            /\ BackWithinTol(parse_decimal(f[4]), cm_width, 2 * (b[3] - b[1]))
            /\ BackWithinTol(parse_decimal(f[5]), cm_height, 2 * (b[4] - b[2]))

\* C5 witness: a written annotation with a centre whose decimal expansion
\* does not end (a third of the width) and a non-empty box
C5_Witness ==
    /\ cm_txt # NoFile
    /\ cm_width = 6 /\ cm_ret.box[1] + cm_ret.box[3] = 4
    /\ cm_ret.box[1] < cm_ret.box[3]
    /\ Len(cm_txt) > 40

\* C7 (as claimed): for width <= 0 or height <= 0 create_mask fails with an
\* InvalidDimensionError and no other kind of failure.
C7_InvalidDimensionError ==
    (cm_ret # NotCalled /\ ~ValidSize) => cm_ret.exc = "InvalidDimensionError"

Finished == pc \in {"done", "returned", "crashed"}
OkResponses ==
    {[status |-> 200, body |-> "uri"], [status |-> 200, body |-> "plain"]}

\* C6: after any run, also one with failed API calls, out_<n>.txt exists
\* exactly when out_<n>.png does, the text is the record that create_mask
\* returned with the mask sent in the request whose answer out_<n>.png
\* holds, that request is the one of iteration n, and no out_<n>.png or
\* out_<n>.txt is written twice within the run.
C6_FilesPair ==
    /\ \A n \in 1..MaxCount : pngWrites[n] <= 1 /\ txtWrites[n] <= 1
    /\ Finished =>
          \A n \in 1..MaxCount :
              /\ (png[n] # 0) <=> (txt[n] # NoFile)
              /\ png[n] # 0 =>
                    /\ png[n] \in 1..Len(calls)
                    /\ calls[png[n]].n = n
                    /\ calls[png[n]].mask.size = images[calls[png[n]].img]
                    /\ txt[n] = annotation_text(calls[png[n]].yolo)

\* C6 witness: a finished run in which one call failed and another one's
\* files were written
C6_Witness ==
    /\ Finished
    /\ \E k \in 1..Len(calls) : calls[k].resp \notin OkResponses
    /\ \E n \in 1..MaxCount : png[n] # 0 /\ txt[n] # NoFile

\* C9 (as claimed): in each script, with count >= 0, images, control images
\* and prompts present and every call answered successfully, the run does
\* not fail, and once it has ended it has made exactly count calls, call n
\* with image (n - 1) mod len(images) of the listing, and has written
\* exactly out_1 .. out_count, png and txt.
C9_AllAnswered ==
    (/\ pc \notin {"start", "returned"}
     /\ count >= 0 /\ Len(images) > 0 /\ nctrls > 0
     /\ prompts_len(script, nprompts) > 0
     /\ \A k \in 1..Len(calls) : calls[k].resp \in OkResponses) =>
        /\ pc # "crashed"
        /\ Len(calls) <= count
        /\ \A k \in 1..Len(calls) :
              calls[k].n = k /\ calls[k].img = ((k - 1) % Len(images)) + 1
        /\ pc = "done" =>
              /\ Len(calls) = count
              /\ \A n \in 1..MaxCount :
                    /\ (png[n] # 0) <=> (n <= count)
                    /\ (txt[n] # NoFile) <=> (n <= count)

\* C10: in Main.py a non-200 answer to iteration n makes send_to_api return
\* None: the step writes no file and changes none, and the run goes on with
\* n + 1; a run that ends has made exactly count calls, call k for
\* iteration k, and the n answered non-200 are gaps, with neither
\* out_<n>.png nor out_<n>.txt.
\* an answer arrived and its status is not 200
Non200(resp) == resp # NO_RESPONSE /\ resp.status # 200

C10_GapStep ==
    (/\ script = "Main" /\ pc = "post"
     /\ Len(calls') = Len(calls) + 1
     /\ Non200(calls'[Len(calls')].resp)) =>
        /\ png' = png /\ txt' = txt /\ cmp' = cmp
        /\ pngWrites' = pngWrites /\ txtWrites' = txtWrites
        /\ pc' = "loop" /\ i' = i + 1 /\ exc' = exc
        /\ calls'[Len(calls')].n = i + 1

C10_GapsAtEnd ==
    (script = "Main" /\ pc = "done") =>
        /\ Len(calls) = count
        /\ \A k \in 1..Len(calls) :
              /\ calls[k].n = k
              /\ Non200(calls[k].resp) => (png[k] = 0 /\ txt[k] = NoFile)
              /\ ~Non200(calls[k].resp) => (png[k] = k /\ txt[k] # NoFile)

C10_Non200LeavesGap == [][C10_GapStep]_vars /\ []C10_GapsAtEnd

\* C10 witness: a Main.py run that ended after two calls, the first
\* answered with a status that is not 200 and left as a gap, the second
\* answered 200 and written
C10_Witness ==
    /\ script = "Main" /\ pc = "done" /\ count = 2
    /\ Non200(calls[1].resp)
    /\ png[1] = 0 /\ txt[1] = NoFile /\ png[2] = 2 /\ txt[2] # NoFile

\* a folder holds no file whose name ends in png, jpg or jpeg, in either case
NoImageIn(listing) ==
    \A k \in 1..Len(listing) :
        \A sfx \in IMAGE_SUFFIXES :
            \/ Len(listing[k]) < Len(sfx)
            \/ \E d \in 1..Len(sfx) :
                  listing[k][Len(listing[k]) - Len(sfx) + d]
                      \notin {sfx[d], sfx[d] - 32}

NothingWritten ==
    /\ \A n \in 1..MaxCount :
          png[n] = 0 /\ txt[n] = NoFile /\ pngWrites[n] = 0 /\ txtWrites[n] = 0
    /\ cmp = {}

\* C11: in each script, when the input folder or the control folder holds
\* no file ending in png, jpg or jpeg, the run stops before the generation
\* loop, whatever --count is: it never enters the loop, it ends by a return
\* (Main.py, Main_Resim.py) or by SystemExit (Deneme_1.py), no request is
\* posted and no out_<n>.png, out_<n>.txt or cmp_<n>.png is written.
C11_EmptyFolderStops ==
    (pc # "idle" /\ (NoImageIn(input_dir) \/ NoImageIn(control_dir))) =>
        /\ pc \in {"start", "returned", "crashed"}
        /\ pc = "crashed" => (script = "Deneme_1" /\ exc = "SystemExit")
        /\ pc = "returned" => script # "Deneme_1"
        /\ i = 0
        /\ cur = NoLocals
        /\ calls = <<>>
        /\ NothingWritten

\* C11 witness: a run asked for count > 0 items whose input folder has an
\* image while its control folder has a file but no image has passed the
\* folder checks and has stopped
C11_Witness ==
    /\ pc \in {"returned", "crashed"}
    /\ count > 0
    /\ ~NoImageIn(input_dir)
    /\ Len(control_dir) > 0 /\ NoImageIn(control_dir)
    /\ calls = <<>>

====
